---- MODULE Spec2Model ----
(***************************************************************************)
(* Transport API backend (src/main.py, src/schemas.py): the three request  *)
(* handlers create_quote, create_shipment and track_shipment over the      *)
(* document store's "quoterequest" and "shipment" collections.             *)
(***************************************************************************)
EXTENDS Integers, Sequences, FiniteSets, TLC

VARIABLES
  quoterequest,  \* the "quoterequest" collection, in insertion order
  shipment,      \* the "shipment" collection, in insertion order
  nextId,        \* the next identifier the store assigns
  created,       \* the accepted body behind each shipment create_shipment stored
  req,           \* the last request
  resp,          \* its response
  calls,         \* the persistence calls it made
  raised         \* whether its persistence call raised

vars == <<quoterequest, shipment, nextId, created, req, resp, calls, raised>>

\* ---------------------------------------------------------------- bounds
MaxDocs == 2      \* documents the store holds, both collections together
MaxClock == 1     \* the instants datetime.utcnow() returns are 0..MaxClock
MaxEvents == 2    \* events of a shipment document found in the store

\* ---------------------------------------------------------------- values
\* A Python / JSON value: its type k, its text s (of a str), its number n
\* (of a float, a datetime instant, an ObjectId).
Val(k, s, n) == [k |-> k, s |-> s, n |-> n]
Absent == Val("absent", "", 0)        \* key not in the mapping
None == Val("None", "", 0)            \* JSON null / Python None
Str(s) == Val("str", s, 0)
Float(n) == Val("float", "", n)
DateTime(n) == Val("datetime", "", n)
ObjectId(n) == Val("ObjectId", "", n)

\* dict.get(key): None when the key is absent
get(v) == IF v.k = "absent" THEN None ELSE v

\* isinstance(v, datetime)
IsDateTime(v) == v.k = "datetime"

\* datetime.isoformat(): the ISO-8601 text of instant n
isoformat(v) == Str("1970-01-01T00:00:0" \o ToString(v.n))

\* repr(x) of a text: the text in quotes
repr(v) ==
  CASE v.k = "str" -> Str("'" \o v.s \o "'")
    [] v.k = "ObjectId" -> Str("ObjectId('64b7f0c2a1" \o ToString(v.n) \o "')")
    [] v.k = "datetime" -> Str("datetime.datetime(1970, 1, 1, 0, 0, " \o ToString(v.n) \o ")")
    [] v.k = "float" -> Str(ToString(v.n) \o ".0")
    [] v.k = "None" -> Str("None")

\* str(x), main.py:90
str(v) ==
  CASE v.k = "str" -> v
    [] v.k = "ObjectId" -> Str("64b7f0c2a1" \o ToString(v.n))
    [] v.k = "datetime" -> Str("1970-01-01 00:00:0" \o ToString(v.n))
    [] v.k = "float" -> Str(ToString(v.n) \o ".0")
    [] v.k = "None" -> Str("None")

\* truth value of x in `x or y`
Truthy(v) ==
  CASE v.k \in {"None", "absent"} -> FALSE
    [] v.k = "str" -> v.s # ""
    [] v.k = "float" -> v.n # 0
    [] OTHER -> TRUE

\* ------------------------------------------------------ schemas.py, models
RequiredStr(v) == v.k = "str"
OptionalStr(v) == v.k \in {"absent", "None", "str"}
OptionalDateTime(v) == v.k \in {"absent", "None", "datetime"}

\* the texts EmailStr accepts, among the texts the requests use
WellFormedAddresses == {"ann@example.com"}
EmailStr(v) == v.k = "str" /\ v.s \in WellFormedAddresses

\* Optional[float] without the ge=0 bound
OptionalFloat_noBound(v) == v.k \in {"absent", "None", "float"}

\* Optional[float] with ge=0
OptionalFloatGe0(v) == v.k \in {"absent", "None"} \/ (v.k = "float" /\ v.n >= 0)

\* a field with default d
Default(v, d) == IF v.k = "absent" THEN d ELSE v

QuoteFields ==
  {"name", "email", "phone", "company", "cargo_type", "weight_kg",
   "dimensions_cm", "pickup_location", "delivery_location",
   "preferred_pickup_date", "preferred_delivery_date", "notes"}
\* name declared Optional[str]
QuoteRequired_noName == {"cargo_type", "pickup_location", "delivery_location"}
\* the required text fields (email apart)
QuoteRequired == {"name", "cargo_type", "pickup_location", "delivery_location"}
QuoteOptionalStr ==
  {"phone", "company", "dimensions_cm", "preferred_pickup_date",
   "preferred_delivery_date", "notes"}

\* QuoteRequest accepts the body b
QuoteRequestValid(b) ==
  /\ \A f \in QuoteRequired : RequiredStr(b[f])
  /\ EmailStr(b.email)
  /\ \A f \in QuoteOptionalStr : OptionalStr(b[f])
  /\ OptionalFloatGe0(b.weight_kg)

\* the QuoteRequest built from an accepted body: Field(None) defaults
QuoteRequest(b) == [f \in QuoteFields |-> Default(b[f], None)]

\* NewShipment accepts the body b
NewShipmentValid(b) ==
  /\ RequiredStr(b.tracking_number)
  /\ RequiredStr(b.origin)
  /\ RequiredStr(b.destination)
  /\ RequiredStr(Default(b.status, Str("In Transit")))
  /\ OptionalDateTime(b.eta)

\* the NewShipment built from an accepted body
NewShipment(b) ==
  [tracking_number |-> b.tracking_number,
   origin |-> b.origin,
   destination |-> b.destination,
   status |-> Default(b.status, Str("In Transit")),
   eta |-> Default(b.eta, None)]

\* ------------------------------------------------------- persistence
\* insert_one: the document as stored, with the identifier the store assigns
Stored(document, id) == [f \in DOMAIN document \cup {"_id"} |->
                           IF f = "_id" THEN ObjectId(id) ELSE document[f]]

\* create_document(collection, data): the inserted identifier, as text
create_document(id) == str(ObjectId(id))

\* the first limit elements of a sequence (limit 0: all)
Limit(s, limit) ==
  IF limit = 0 \/ Len(s) <= limit THEN s ELSE SubSeq(s, 1, limit)

\* get_documents(collection, {"tracking_number": t}, limit)
get_documents(collection, t, limit) ==
  Limit(SelectSeq(collection, LAMBDA d : d.tracking_number = Str(t)), limit)

\* ------------------------------------------------------- responses
NoDoc ==
  [_id |-> Absent, tracking_number |-> Absent, origin |-> Absent,
   destination |-> Absent, status |-> Absent, eta |-> Absent,
   last_update |-> Absent, events |-> [k |-> "absent", items |-> <<>>]]

Response(status, detail, id, doc) ==
  [status |-> status, ok |-> (status = 200), detail |-> detail, id |-> id,
   shipment |-> doc]

HTTPException(status, detail) == Response(status, detail, Absent, NoDoc)
ValidationError == HTTPException(422, "validation error")

\* ------------------------------------------------------- normalization
\* the identifier rendered with repr()
NormalizeId_repr(doc) == [doc EXCEPT !._id = repr(get(doc._id))]

\* main.py:90
NormalizeId(doc) == [doc EXCEPT !._id = str(get(doc._id))]

\* main.py:91-93, one key
NormalizeKey(v) == IF IsDateTime(get(v)) THEN isoformat(v) ELSE v

\* main.py:96-99, one event
NormalizeEvent(e) ==
  IF IsDateTime(get(e.timestamp))
  THEN [e EXCEPT !.timestamp = isoformat(e.timestamp)]
  ELSE e

\* `doc["events"] = doc.get("events") or []`: a missing sequence is written back
NormalizeEvents_writeBack(ev) ==
  IF ev.k = "list"
  THEN [ev EXCEPT !.items = [i \in DOMAIN ev.items |-> NormalizeEvent(ev.items[i])]]
  ELSE [k |-> "list", items |-> <<>>]

\* main.py:95-99: `doc.get("events") or []`, the events changed in place
NormalizeEvents(ev) ==
  IF ev.k = "list"
  THEN [ev EXCEPT !.items = [i \in DOMAIN ev.items |-> NormalizeEvent(ev.items[i])]]
  ELSE ev

\* main.py:89-99
normalize(doc) ==
  LET d1 == NormalizeId(doc)
  IN [d1 EXCEPT !.eta = NormalizeKey(d1.eta),
                !.last_update = NormalizeKey(d1.last_update),
                !.events = NormalizeEvents(d1.events)]

\* ------------------------------------------------------- handlers
\* what a handler did: its response, its persistence calls, whether the
\* call raised, and the documents it inserted
Outcome(response, n, failed, inserted) ==
  [resp |-> response, calls |-> n, raised |-> failed, inserted |-> inserted]

\* FastAPI rejects the body before the handler runs
Rejected == Outcome(ValidationError, 0, FALSE, <<>>)

\* the exception the persistence call raises: no HTTP status
PersistenceFailure == HTTPException(0, "str(e)")

\* main.py:77-78, 137-138: `except Exception`
ServerError(e) == HTTPException(500, e.detail)

\* the handler answering without the insert
create_quote_noInsert(quote, dbFails, id) ==
  IF dbFails
  THEN Outcome(ServerError(PersistenceFailure), 1, TRUE, <<>>)
  ELSE Outcome(Response(200, "", create_document(id), NoDoc), 0, FALSE, <<>>)

\* main.py:71-78, on an accepted body
create_quote_handler(quote, dbFails, id) ==
  IF dbFails
  THEN Outcome(ServerError(PersistenceFailure), 1, TRUE, <<>>)
  ELSE Outcome(Response(200, "", create_document(id), NoDoc), 1, FALSE,
               <<Stored(quote, id)>>)

\* the event located at the destination
ShipmentDocument_atDestination(payload, now) ==
  [tracking_number |-> payload.tracking_number,
   origin |-> payload.origin,
   destination |-> payload.destination,
   status |-> payload.status,
   eta |-> IF Truthy(payload.eta) THEN payload.eta ELSE DateTime(now),
   last_update |-> DateTime(now),
   events |-> [k |-> "list",
               items |-> <<[timestamp |-> DateTime(now),
                            location |-> payload.destination,
                            description |-> Str("Shipment created")]>>]]

\* eta taken from the payload as it is
ShipmentDocument_noEtaDefault(payload, now) ==
  [tracking_number |-> payload.tracking_number,
   origin |-> payload.origin,
   destination |-> payload.destination,
   status |-> payload.status,
   eta |-> payload.eta,
   last_update |-> DateTime(now),
   events |-> [k |-> "list",
               items |-> <<[timestamp |-> DateTime(now),
                            location |-> payload.origin,
                            description |-> Str("Shipment created")]>>]]

\* main.py:120-134: the shipment document; the three utcnow() reads of one
\* request fall in the same instant, now
ShipmentDocument(payload, now) ==
  [tracking_number |-> payload.tracking_number,
   origin |-> payload.origin,
   destination |-> payload.destination,
   status |-> payload.status,
   eta |-> IF Truthy(payload.eta) THEN payload.eta ELSE DateTime(now),
   last_update |-> DateTime(now),
   events |-> [k |-> "list",
               items |-> <<[timestamp |-> DateTime(now),
                            location |-> payload.origin,
                            description |-> Str("Shipment created")]>>]]

\* the handler trying the insert a second time when it raises
create_shipment_retry(payload, dbFails, id, now) ==
  IF dbFails
  THEN Outcome(ServerError(PersistenceFailure), 2, TRUE, <<>>)
  ELSE Outcome(Response(200, "", create_document(id), NoDoc), 1, FALSE,
               <<Stored(ShipmentDocument(payload, now), id)>>)

\* main.py:115-138, on an accepted body
create_shipment_handler(payload, dbFails, id, now) ==
  IF dbFails
  THEN Outcome(ServerError(PersistenceFailure), 1, TRUE, <<>>)
  ELSE Outcome(Response(200, "", create_document(id), NoDoc), 1, FALSE,
               <<Stored(ShipmentDocument(payload, now), id)>>)

\* the handler without `except HTTPException: raise`
TrackExcept_catchAll(e) == ServerError(e)

\* main.py:101-104: an HTTPException is re-raised, anything else becomes 500
TrackExcept(e) == IF e.status = 0 THEN ServerError(e) ELSE e

\* the handler taking the last match of an unlimited query
track_shipment_lastMatch(collection, tracking_number, dbFails) ==
  LET docs == get_documents(collection, tracking_number, 0)
  IN IF dbFails
     THEN Outcome(TrackExcept(PersistenceFailure), 1, TRUE, <<>>)
     ELSE IF docs = <<>>
     THEN Outcome(TrackExcept(HTTPException(404, "Tracking number not found")),
                  1, FALSE, <<>>)
     ELSE Outcome(Response(200, "", Absent, normalize(docs[Len(docs)])), 1, FALSE, <<>>)

\* main.py:81-104
track_shipment_handler(collection, tracking_number, dbFails) ==
  LET docs == get_documents(collection, tracking_number, 1)
  IN IF dbFails
     THEN Outcome(TrackExcept(PersistenceFailure), 1, TRUE, <<>>)
     ELSE IF docs = <<>>
     THEN Outcome(TrackExcept(HTTPException(404, "Tracking number not found")),
                  1, FALSE, <<>>)
     ELSE Outcome(Response(200, "", Absent, normalize(docs[1])), 1, FALSE, <<>>)

\* ------------------------------------------------------- requests
Instants == 0..MaxClock

QuoteBody(n, w, o) ==
  [name |-> n, email |-> Str("ann@example.com"), phone |-> o, company |-> o,
   cargo_type |-> Str("pallets"), weight_kg |-> w, dimensions_cm |-> o,
   pickup_location |-> Str("NYC"), delivery_location |-> Str("LA"),
   preferred_pickup_date |-> o, preferred_delivery_date |-> o, notes |-> o]

\* bodies that state every required field
CompleteQuotes ==
  {QuoteBody(Str("Ann"), None, Absent),
   QuoteBody(Str(""), Float(0), Str("text"))}

\* one field of a complete body left out or spoilt
QuoteDefects ==
  {<<"name", Absent>>, <<"name", None>>, <<"email", Absent>>,
   <<"email", Str("not-an-email")>>, <<"cargo_type", Absent>>,
   <<"pickup_location", Absent>>, <<"delivery_location", Absent>>,
   <<"weight_kg", Float(-1)>>}

NoQuote == [f \in QuoteFields |-> Absent]

QuoteBodies ==
  CompleteQuotes \cup {NoQuote}
    \cup {[b EXCEPT ![d[1]] = d[2]] : b \in CompleteQuotes, d \in QuoteDefects}

TrackingNumbers == {"TRK1", "TRK2"}

ShipmentBody(t, s, e) ==
  [tracking_number |-> Str(t), origin |-> Str("NYC"), destination |-> Str("LA"),
   status |-> s, eta |-> e]

CompleteShipments ==
  {ShipmentBody("TRK1", Absent, Absent),
   ShipmentBody("TRK2", Absent, None),
   ShipmentBody("TRK1", Str("Delivered"), DateTime(MaxClock + 1))}

ShipmentDefects ==
  {<<"tracking_number", Absent>>, <<"origin", Absent>>,
   <<"destination", Absent>>, <<"status", None>>, <<"eta", Str("soon")>>}

NoShipment ==
  [tracking_number |-> Absent, origin |-> Absent, destination |-> Absent,
   status |-> Absent, eta |-> Absent]

ShipmentBodies ==
  CompleteShipments \cup {NoShipment}
    \cup {[b EXCEPT ![d[1]] = d[2]] : b \in CompleteShipments, d \in ShipmentDefects}

Request(op, quote, payload, t) ==
  [op |-> op, quote |-> quote, payload |-> payload, tracking_number |-> t]

Stores == Len(quoterequest) + Len(shipment)

\* the handler's outcome becomes the response; the store assigns its ids
Done(r, o) ==
  /\ req' = r
  /\ resp' = o.resp
  /\ calls' = o.calls
  /\ raised' = o.raised
  /\ nextId' = nextId + Len(o.inserted)

\* ------------------------------------------------------- specification
Init ==
  /\ quoterequest = <<>>
  /\ shipment = <<>>
  /\ nextId = 1
  /\ created = <<>>
  /\ req = Request("none", NoQuote, NoShipment, "")
  /\ resp = Response(0, "", Absent, NoDoc)
  /\ calls = 0
  /\ raised = FALSE

\* POST /api/quote
create_quote ==
  \E body \in QuoteBodies :
    \E dbFails \in IF QuoteRequestValid(body) THEN BOOLEAN ELSE {FALSE} :
      LET o == IF QuoteRequestValid(body)
               THEN create_quote_handler(QuoteRequest(body), dbFails, nextId)
               ELSE Rejected
      IN /\ Stores + Len(o.inserted) <= MaxDocs
         /\ Done(Request("quote", body, NoShipment, ""), o)
         /\ quoterequest' = quoterequest \o o.inserted
         /\ UNCHANGED <<shipment, created>>

\* POST /api/shipments
create_shipment ==
  \E body \in ShipmentBodies :
    \E dbFails \in IF NewShipmentValid(body) THEN BOOLEAN ELSE {FALSE} :
      \E now \in IF NewShipmentValid(body) /\ ~dbFails THEN Instants ELSE {0} :
        LET o == IF NewShipmentValid(body)
                 THEN create_shipment_handler(NewShipment(body), dbFails, nextId, now)
                 ELSE Rejected
        IN /\ Stores + Len(o.inserted) <= MaxDocs
           /\ Done(Request("shipments", NoQuote, body, ""), o)
           /\ shipment' = shipment \o o.inserted
           /\ created' = created \o [i \in DOMAIN o.inserted |-> body]
           /\ UNCHANGED quoterequest

\* GET /api/track/{tracking_number}
track_shipment ==
  \E t \in TrackingNumbers, dbFails \in BOOLEAN :
    LET o == track_shipment_handler(shipment, t, dbFails)
    IN /\ Done(Request("track", NoQuote, NoShipment, t), o)
       /\ UNCHANGED <<quoterequest, shipment, created>>

Next == create_quote \/ create_shipment \/ track_shipment

Spec == Init /\ [][Next]_vars

\* ------------------------------------- documents found in the store
\* what a timestamp field of a document already in the store may hold
Timestamps == {DateTime(MaxClock), Str("2024-05-01T10:00:00"), None, Absent}

Event(ts) ==
  [timestamp |-> ts, location |-> None, description |-> Str("Departed")]

EventLists ==
  UNION {[1..n -> {Event(ts) : ts \in Timestamps}] : n \in 0..MaxEvents}

\* shipment documents written to the collection by any client of the store
FoundShipments ==
  {[_id |-> id, tracking_number |-> Str("TRK1"), origin |-> Str("NYC"),
    destination |-> Str("LA"), status |-> Str("In Transit"), eta |-> e,
    last_update |-> u, events |-> ev] :
     id \in {ObjectId(1), Str("64b7f0c2a11"), Absent},
     e \in Timestamps, u \in Timestamps,
     ev \in {[k |-> "absent", items |-> <<>>], [k |-> "None", items |-> <<>>]}
              \cup {[k |-> "list", items |-> l] : l \in EventLists}}

\* the store holds one document the API did not create
InitFound ==
  /\ quoterequest = <<>>
  /\ shipment \in {<<d>> : d \in FoundShipments}
  /\ nextId = 2
  /\ created = <<>>
  /\ req = Request("none", NoQuote, NoShipment, "")
  /\ resp = Response(0, "", Absent, NoDoc)
  /\ calls = 0
  /\ raised = FALSE

NextFound == track_shipment

SpecFound == InitFound /\ [][NextFound]_vars

\* ------------------------------------------------------- properties
\* the positions of the shipment documents with tracking number t
MatchingIn(collection, t) ==
  {i \in DOMAIN collection : collection[i].tracking_number = Str(t)}
Matching(t) == MatchingIn(shipment, t)

\* the first of them
FirstMatch(t) == CHOOSE i \in Matching(t) : \A j \in Matching(t) : i <= j

\* the last request asked for a shipment and its query did not raise
Tracked == req.op = "track" /\ ~raised

\* C1: track_shipment on a store with no document of that tracking number
\* answers 404 "Tracking number not found", never the generic 500.
C1_NotFoundPropagates ==
  (Tracked /\ Matching(req.tracking_number) = {}) =>
    /\ resp.status = 404
    /\ resp.detail = "Tracking number not found"
    /\ ~resp.ok

C1_Witness ==
  /\ Tracked
  /\ shipment # <<>>
  /\ Matching(req.tracking_number) = {}
  /\ resp.status = 404

\* C7: a handler whose persistence call raises answers 500, and no request
\* makes more than one persistence call.
C7_SingleAttempt ==
  /\ calls <= 1
  /\ raised => (resp.status = 500 /\ calls = 1 /\ ~resp.ok)

C7_Witness ==
  /\ raised
  /\ req.op = "shipments"
  /\ resp.status = 500
  /\ shipment # <<>>

\* C4: after create_shipment stored a body without status, alone under its
\* tracking number, track_shipment returns it with that tracking number,
\* status "In Transit" and exactly one event, "Shipment created", located
\* at the body's origin.
C4_CreateThenTrack ==
  (/\ Tracked
   /\ Cardinality(Matching(req.tracking_number)) = 1
   /\ created[FirstMatch(req.tracking_number)].status = Absent) =>
    LET body == created[FirstMatch(req.tracking_number)]
        events == resp.shipment.events
    IN /\ resp.status = 200
       /\ resp.shipment.tracking_number = Str(req.tracking_number)
       /\ resp.shipment.status = Str("In Transit")
       /\ events.k = "list"
       /\ Len(events.items) = 1
       /\ events.items[1].description = Str("Shipment created")
       /\ events.items[1].location = body.origin

C4_Witness ==
  /\ Tracked
  /\ Cardinality(Matching(req.tracking_number)) = 1
  /\ created[FirstMatch(req.tracking_number)].status = Absent
  /\ resp.status = 200
  /\ Len(shipment) = 2

\* C5: normalizing the document a successful track_shipment returned, which
\* is already normalized, changes nothing.
C5_NormalizeIdempotent ==
  (Tracked /\ resp.status = 200) =>
    /\ normalize(resp.shipment) = resp.shipment
    /\ \A i \in DOMAIN shipment :
         normalize(normalize(shipment[i])) = normalize(shipment[i])

C5_Witness ==
  /\ Tracked
  /\ resp.status = 200
  /\ shipment[1]._id.k = "ObjectId"
  /\ shipment[1].eta.k = "datetime"
  /\ shipment[1].last_update.k = "str"
  /\ shipment[1].events.k = "list"
  /\ Len(shipment[1].events.items) = 2
  /\ shipment[1].events.items[1].timestamp.k = "datetime"
  /\ shipment[1].events.items[2].timestamp.k = "str"

\* the ISO-8601 text of the instant of a native timestamp
IsoOf(v) == Str("1970-01-01T00:00:0" \o ToString(v.n))

\* a timestamp field as returned: text for a native timestamp, else untouched
Returned(stored, returned) ==
  IF stored.k = "datetime" THEN returned = IsoOf(stored) ELSE returned = stored

\* C6: the document a successful track_shipment returns has a text
\* identifier, ISO-8601 text for each native timestamp among eta,
\* last_update and the events' timestamps, and every other field as stored:
\* a null or absent eta, last_update or events stays null or absent.
C6_NormalizedDocument ==
  (Tracked /\ resp.status = 200) =>
    LET d == shipment[FirstMatch(req.tracking_number)]
        r == resp.shipment
    IN /\ r._id.k = "str"
       /\ d._id.k = "str" => r._id = d._id
       /\ Returned(d.eta, r.eta)
       /\ Returned(d.last_update, r.last_update)
       /\ r.events.k = d.events.k
       /\ Len(r.events.items) = Len(d.events.items)
       /\ \A i \in DOMAIN d.events.items :
            /\ Returned(d.events.items[i].timestamp, r.events.items[i].timestamp)
            /\ r.events.items[i].location = d.events.items[i].location
            /\ r.events.items[i].description = d.events.items[i].description
       /\ \A f \in {"tracking_number", "origin", "destination", "status"} :
            r[f] = d[f]

C6_Witness ==
  /\ Tracked
  /\ resp.status = 200
  /\ shipment[1]._id.k = "absent"
  /\ shipment[1].eta.k = "None"
  /\ shipment[1].last_update.k = "datetime"
  /\ shipment[1].events.k = "None"

\* a shipment body stating all that NewShipment requires
CompleteShipment(b) ==
  /\ \A f \in {"tracking_number", "origin", "destination"} : b[f].k = "str"
  /\ b.status.k \in {"absent", "str"}
  /\ b.eta.k \in {"absent", "None", "datetime"}

\* C10: a tracking number may be stored twice (create_shipment on a
\* tracking number already present succeeds and adds a document), and
\* track_shipment then returns one shipment, the first stored under that
\* tracking number.
C10_FirstMatchOnly ==
  [][/\ (/\ req'.op = "shipments"
         /\ CompleteShipment(req'.payload)
         /\ ~raised'
         /\ \E i \in DOMAIN shipment :
              shipment[i].tracking_number = req'.payload.tracking_number) =>
          /\ resp'.status = 200
          /\ Len(shipment') = Len(shipment) + 1
          /\ SubSeq(shipment', 1, Len(shipment)) = shipment
          /\ shipment'[Len(shipment')].tracking_number
               = req'.payload.tracking_number
     /\ (/\ req'.op = "track"
         /\ ~raised'
         /\ MatchingIn(shipment', req'.tracking_number) # {}) =>
          /\ resp'.status = 200
          /\ resp'.shipment._id.k = "str"
          /\ \A i \in MatchingIn(shipment', req'.tracking_number) :
               (resp'.shipment._id
                  = Str("64b7f0c2a1" \o ToString(shipment'[i]._id.n)))
                 <=> (\A j \in MatchingIn(shipment', req'.tracking_number) : i <= j)
    ]_vars

C10_Witness ==
  /\ Tracked
  /\ Cardinality(Matching(req.tracking_number)) = 2
  /\ resp.status = 200
  /\ resp.shipment._id = Str("64b7f0c2a11")

\* the fields QuoteRequest requires
RequiredOfQuote ==
  {"name", "email", "cargo_type", "pickup_location", "delivery_location"}

\* a quote body that breaks a QuoteRequest rule
ViolatesQuoteRule(b) ==
  \/ \E f \in RequiredOfQuote : b[f] = Absent
  \/ b.email.k = "str" /\ b.email.s \notin WellFormedAddresses
  \/ b.weight_kg.k = "float" /\ b.weight_kg.n < 0

\* a quote body that meets every QuoteRequest rule
MeetsQuoteRules(b) ==
  /\ \A f \in RequiredOfQuote : b[f].k = "str"
  /\ b.email.s \in WellFormedAddresses
  /\ b.weight_kg.k \in {"absent", "None"}
       \/ (b.weight_kg.k = "float" /\ b.weight_kg.n >= 0)

\* C2: a quote body that breaks a QuoteRequest rule is answered 422 with
\* no persistence call, and the "quoterequest" collection stays as it was.
C2_InvalidQuoteRejected ==
  [][(req'.op = "quote" /\ ViolatesQuoteRule(req'.quote)) =>
       /\ resp'.status = 422
       /\ ~resp'.ok
       /\ calls' = 0
       /\ quoterequest' = quoterequest
       /\ shipment' = shipment
    ]_vars

C2_Witness ==
  /\ req.op = "quote"
  /\ req.quote.weight_kg = Float(-1)
  /\ req.quote.name = Str("Ann")
  /\ resp.status = 422
  /\ calls = 0
  /\ quoterequest # <<>>

\* C3: a valid quote, when the insert does not raise, is answered
\* {ok: true, id: non-empty text}; "quoterequest" gains exactly one document,
\* with the fields of the input (null where the input has none), and
\* "shipment" stays as it was.
C3_QuoteStored ==
  [][(req'.op = "quote" /\ MeetsQuoteRules(req'.quote) /\ ~raised') =>
       /\ resp'.status = 200
       /\ resp'.ok
       /\ resp'.id.k = "str"
       /\ resp'.id.s # ""
       /\ Len(quoterequest') = Len(quoterequest) + 1
       /\ SubSeq(quoterequest', 1, Len(quoterequest)) = quoterequest
       /\ \A f \in QuoteFields :
            quoterequest'[Len(quoterequest')][f]
              = IF req'.quote[f] = Absent THEN None ELSE req'.quote[f]
       /\ shipment' = shipment
    ]_vars

C3_Witness ==
  /\ req.op = "quote"
  /\ MeetsQuoteRules(req.quote)
  /\ resp.status = 200
  /\ Len(quoterequest) = 2
  /\ quoterequest[2].weight_kg = Float(0)
  /\ quoterequest[2].notes = Str("text")
  /\ quoterequest[1].notes = None

\* C8: create_shipment rejects a body without tracking_number, origin or
\* destination and inserts nothing; the document it inserts has status
\* "In Transit" when the body has no status, the request's timestamp as eta
\* when the body's eta is absent or null, and a native-timestamp eta and
\* last_update always.
C8_NewShipmentDefaults ==
  [][(req'.op = "shipments") =>
       /\ (\E f \in {"tracking_number", "origin", "destination"} :
             req'.payload[f] = Absent) =>
            /\ resp'.status = 422
            /\ calls' = 0
            /\ shipment' = shipment
       /\ (resp'.status = 200) =>
            /\ Len(shipment') = Len(shipment) + 1
            /\ LET d == shipment'[Len(shipment')]
               IN /\ (req'.payload.status = Absent) => d.status = Str("In Transit")
                  /\ (req'.payload.eta \in {Absent, None}) => d.eta = d.last_update
                  /\ (req'.payload.eta.k = "datetime") => d.eta = req'.payload.eta
                  /\ d.eta.k = "datetime"
                  /\ d.last_update.k = "datetime"
       /\ \A i \in DOMAIN shipment' :
            shipment'[i].eta.k = "datetime" /\ shipment'[i].last_update.k = "datetime"
    ]_vars

C8_Witness ==
  /\ req.op = "shipments"
  /\ req.payload.status = Absent
  /\ req.payload.eta = None
  /\ resp.status = 200
  /\ shipment[Len(shipment)].eta = DateTime(MaxClock)
  /\ shipment[Len(shipment)].status = Str("In Transit")

\* C9 as stated: a quote body whose name is the empty string is answered 422
\* and nothing is inserted for it.
C9_EmptyNameRejected ==
  (req.op = "quote" /\ req.quote.name = Str("")) =>
    (resp.status = 422 /\ calls = 0)

\* C9, amended: name is required text that may be empty. A quote body without
\* name is answered 422 and nothing is inserted; a body whose name is the
\* empty string and that meets the other rules is accepted and stored with
\* that empty name.
C9_NameRequiredMayBeEmpty ==
  [][(req'.op = "quote") =>
       /\ (req'.quote.name = Absent) =>
            /\ resp'.status = 422
            /\ calls' = 0
            /\ quoterequest' = quoterequest
       /\ (/\ req'.quote.name = Str("")
           /\ MeetsQuoteRules(req'.quote)
           /\ ~raised') =>
            /\ resp'.status = 200
            /\ Len(quoterequest') = Len(quoterequest) + 1
            /\ quoterequest'[Len(quoterequest')].name = Str("")
    ]_vars

C9_Witness ==
  /\ req.op = "quote"
  /\ req.quote.name = Str("")
  /\ resp.status = 200
  /\ quoterequest # <<>>
  /\ quoterequest[Len(quoterequest)].name = Str("")

====
